---------------------------- MODULE Spec2Model ----------------------------
(***************************************************************************)
(* The NCursesBridge header (Sources/NCursesBridge/ncurses_bridge.h): nine *)
(* static inline wrappers that give a caller without C macros or variadic  *)
(* calls access to getmaxyx, mvwprintw, mvwaddch and the A_* attribute     *)
(* constants of ncurses.                                                   *)
(*                                                                         *)
(* The wrappers are modelled together with the part of ncurses they call:  *)
(* a window (size, cursor, cells), wmove, waddch, waddstr, the printf      *)
(* formatting of mvwprintw and the attribute bit layout of ncurses.h.      *)
(* A pointer to a window is a sequence: <<>> is NULL, <<w>> points to w.   *)
(***************************************************************************)
EXTENDS Integers, Sequences, FiniteSets, TLC

(* Bounds of the model *)
\* the largest window area (rows * cols) a screen is created with
MaxCells == 2
\* the longest string handed to bridge_mvwprintw
MaxLen == 2

VARIABLES stdscr, ended, last

vars == <<stdscr, ended, last>>

(***************************************************************************)
(* ncurses.h: status values, characters, attribute bits                    *)
(***************************************************************************)
ERR == -1
OK == 0

\* the characters of the strings and chtypes of the model: '%' and 's' spell
\* every printf directive the wrapper could meet ("%s", "%%", a lone "%")
Chars == {"%", "s"}
BLANK == " "

Strings == UNION {[1..n -> Chars] : n \in 0..MaxLen}

\* width of chtype / attr_t (unsigned) and of int
CHTYPE_BITS == 32
INT_BITS == 32

NCURSES_ATTR_SHIFT == 8

\* An unsigned value is the set of the positions of its 1 bits (2^32 is not
\* an integer of the checker).  Bits(n): the bits of a non-negative int.
Bits(n) == {b \in 0..(INT_BITS - 2) : (n \div 2^b) % 2 = 1}

RECURSIVE Value(_)
Value(B) == IF B = {} THEN 0
            ELSE LET b == CHOOSE c \in B : TRUE IN 2^b + Value(B \ {b})

\* #define NCURSES_BITS(mask,shift) (NCURSES_CAST(chtype,(mask)) << ((shift) + NCURSES_ATTR_SHIFT))
NCURSES_BITS(mask, shift) ==
    {b + shift + NCURSES_ATTR_SHIFT : b \in Bits(mask)} \cap (0..(CHTYPE_BITS - 1))

\* #define A_NORMAL (1U - 1U), A_STANDOUT NCURSES_BITS(1U,8), ...
A_NORMAL == Bits(1 - 1)
A_STANDOUT == NCURSES_BITS(1, 8)
A_UNDERLINE == NCURSES_BITS(1, 9)
A_REVERSE == NCURSES_BITS(1, 10)
A_DIM == NCURSES_BITS(1, 12)
A_BOLD == NCURSES_BITS(1, 13)

\* conversion of an unsigned value to a two's complement integer of `bits`
\* bits: the low bits are kept and the top one is the sign
Signed(B, bits) ==
    LET low == Value(B \cap (0..(bits - 2)))
    IN  IF (bits - 1) \in B THEN (low - 2^(bits - 2)) - 2^(bits - 2) ELSE low

\* conversion of a chtype to int in a return statement
ToInt(B) == Signed(B, INT_BITS)

(***************************************************************************)
(* ncurses: the window                                                     *)
(***************************************************************************)
NULL == <<>>

Cells(maxy, maxx) == (0..maxy) \X (0..maxx)

\* newwin(rows, cols, 0, 0): blank cells, cursor at the origin
NewWin(rows, cols) ==
    [maxy |-> rows - 1, maxx |-> cols - 1, cury |-> 0, curx |-> 0,
     cells |-> [p \in Cells(rows - 1, cols - 1) |-> BLANK]]

\* getmaxy(win): (win ? win->_maxy + 1 : ERR)
getmaxy(p) == IF p = NULL THEN ERR ELSE p[1].maxy + 1

\* getmaxx(win): (win ? win->_maxx + 1 : ERR)
getmaxx(p) == IF p = NULL THEN ERR ELSE p[1].maxx + 1

\* wmove(win, y, x): moves the cursor when (y, x) is inside the window
wmove(p, y, x) ==
    IF p # NULL /\ x >= 0 /\ x <= p[1].maxx /\ y >= 0 /\ y <= p[1].maxy
    THEN [win |-> <<[p[1] EXCEPT !.cury = y, !.curx = x]>>, ret |-> OK]
    ELSE [win |-> p, ret |-> ERR]

\* waddch(win, ch) for a printable ch, scrollok off: stores ch at the cursor
\* and advances it; at the right margin it wraps to the next line, and at
\* the lower right corner the character is stored and ERR is returned
waddch(p, ch) ==
    IF p = NULL THEN [win |-> p, ret |-> ERR]
    ELSE
      LET w == p[1]
          put == [w EXCEPT !.cells[<<w.cury, w.curx>>] = ch]
      IN  IF w.curx + 1 <= w.maxx
          THEN [win |-> <<[put EXCEPT !.curx = w.curx + 1]>>, ret |-> OK]
          ELSE IF w.cury + 1 <= w.maxy
          THEN [win |-> <<[put EXCEPT !.cury = w.cury + 1, !.curx = 0]>>, ret |-> OK]
          ELSE [win |-> <<[put EXCEPT !.cury = w.maxy, !.curx = w.maxx]>>, ret |-> ERR]

\* waddstr(win, str): waddch for each character, stopping at the first ERR
RECURSIVE waddstr(_, _)
waddstr(p, s) ==
    IF p = NULL THEN [win |-> p, ret |-> ERR]
    ELSE IF s = <<>> THEN [win |-> p, ret |-> OK]
    ELSE LET r == waddch(p, Head(s))
         IN  IF r.ret = ERR THEN r ELSE waddstr(r.win, Tail(s))

\* mvwaddch(win, y, x, ch): (wmove(win,y,x) == ERR ? ERR : waddch(win,ch))
mvwaddch(p, y, x, ch) ==
    LET m == wmove(p, y, x)
    IN  IF m.ret = ERR THEN [win |-> p, ret |-> ERR] ELSE waddch(m.win, ch)

(***************************************************************************)
(* ncurses: printf formatting                                              *)
(***************************************************************************)
\* what a directive with undefined behaviour (a "%s" with no argument left,
\* a '%' that ends the format) can put in the buffer: any text
Garbage == Strings

Concat(S, T) == {s \o t : s \in S, t \in T}

\* the texts vsnprintf(fmt, args) can produce: ordinary characters are
\* copied, "%%" gives '%', "%s" gives the next argument
RECURSIVE Format(_, _)
Format(fmt, args) ==
    IF fmt = <<>> THEN {<<>>}
    ELSE IF Head(fmt) # "%" THEN Concat({<<Head(fmt)>>}, Format(Tail(fmt), args))
    ELSE IF Len(fmt) = 1 THEN Garbage
    ELSE IF fmt[2] = "%" THEN Concat({<<"%">>}, Format(Tail(Tail(fmt)), args))
    ELSE IF args = <<>> THEN Concat(Garbage, Format(Tail(Tail(fmt)), args))
    ELSE Concat({Head(args)}, Format(Tail(Tail(fmt)), Tail(args)))

\* mvwprintw(win, y, x, fmt, ...): wmove, then the formatted text is added
\* with waddstr; nothing is formatted when the move fails.  text is <<>>
\* when nothing was formatted, <<t>> when t was handed to waddstr.
mvwprintw(p, y, x, fmt, args) ==
    LET m == wmove(p, y, x)
    IN  IF m.ret = ERR THEN {[win |-> p, ret |-> ERR, text |-> <<>>]}
        ELSE {[win |-> waddstr(m.win, t).win, ret |-> waddstr(m.win, t).ret,
               text |-> <<t>>] : t \in Format(fmt, args)}

(***************************************************************************)
(* The record of one library call made by a wrapper                        *)
(***************************************************************************)
LibCall(fn, y, x, fmt, args, ch, ret) ==
    [fn |-> fn, y |-> y, x |-> x, fmt |-> fmt, args |-> args, ch |-> ch, ret |-> ret]

Plain(fn, ret) == LibCall(fn, 0, 0, <<>>, <<>>, BLANK, ret)

(***************************************************************************)
(* ncurses_bridge.h: the wrappers.  Each yields what the call leaves       *)
(* behind: the window, the value returned (or stored through the out       *)
(* pointers) and lib, the library calls it made, in order.                 *)
(***************************************************************************)
\* mutant: the two results stored through the wrong pointers
bridge_getmaxyx_swapped(p, y0, x0) ==
    [win |-> p, y |-> getmaxx(p), x |-> getmaxy(p),
     lib |-> <<Plain("getmaxy", getmaxy(p)), Plain("getmaxx", getmaxx(p))>>]

\* *y = getmaxy(win); *x = getmaxx(win);
\* y0 and x0 are what the caller's ints hold before the call, y and x after
bridge_getmaxyx(p, y0, x0) ==
    [win |-> p, y |-> getmaxy(p), x |-> getmaxx(p),
     lib |-> <<Plain("getmaxy", getmaxy(p)), Plain("getmaxx", getmaxx(p))>>]

\* mutant: the status of the library call is dropped and OK is returned
bridge_mvwprintw_swallow(p, y, x, str) ==
    {[win |-> o.win, ret |-> OK, text |-> o.text,
      lib |-> <<LibCall("mvwprintw", y, x, <<"%", "s">>, <<str>>, BLANK, o.ret)>>]
        : o \in mvwprintw(p, y, x, <<"%", "s">>, <<str>>)}

\* mutant: str is handed to the library as the format, mvwprintw(win, y, x, str)
bridge_mvwprintw_fmt(p, y, x, str) ==
    {[win |-> o.win, ret |-> o.ret, text |-> o.text,
      lib |-> <<LibCall("mvwprintw", y, x, str, <<>>, BLANK, o.ret)>>]
        : o \in mvwprintw(p, y, x, str, <<>>)}

\* return mvwprintw(win, y, x, "%s", str);
bridge_mvwprintw(p, y, x, str) ==
    {[win |-> o.win, ret |-> o.ret, text |-> o.text,
      lib |-> <<LibCall("mvwprintw", y, x, <<"%", "s">>, <<str>>, BLANK, o.ret)>>]
        : o \in mvwprintw(p, y, x, <<"%", "s">>, <<str>>)}

\* mutant: a window that is NULL is refused by the wrapper itself
bridge_mvwaddch_guarded(p, y, x, ch) ==
    IF p = NULL THEN [win |-> p, ret |-> ERR, lib |-> <<>>]
    ELSE [win |-> mvwaddch(p, y, x, ch).win, ret |-> mvwaddch(p, y, x, ch).ret,
          lib |-> <<LibCall("mvwaddch", y, x, <<>>, <<>>, ch, mvwaddch(p, y, x, ch).ret)>>]

\* mutant: the position is clamped into the window before the write
bridge_mvwaddch_clamped(p, y, x, ch) ==
    LET cy == IF p = NULL THEN y ELSE IF y < 0 THEN 0 ELSE IF y > p[1].maxy THEN p[1].maxy ELSE y
        cx == IF p = NULL THEN x ELSE IF x < 0 THEN 0 ELSE IF x > p[1].maxx THEN p[1].maxx ELSE x
    IN  [win |-> mvwaddch(p, cy, cx, ch).win, ret |-> mvwaddch(p, cy, cx, ch).ret,
         lib |-> <<LibCall("mvwaddch", cy, cx, <<>>, <<>>, ch, mvwaddch(p, cy, cx, ch).ret)>>]

\* return mvwaddch(win, y, x, ch);
bridge_mvwaddch(p, y, x, ch) ==
    [win |-> mvwaddch(p, y, x, ch).win, ret |-> mvwaddch(p, y, x, ch).ret,
     lib |-> <<LibCall("mvwaddch", y, x, <<>>, <<>>, ch, mvwaddch(p, y, x, ch).ret)>>]

\* static inline int bridge_a_xxx(void) { return A_XXX; }
bridge_a_bold == [ret |-> ToInt(A_BOLD), lib |-> <<Plain("A_BOLD", A_BOLD)>>]
bridge_a_normal == [ret |-> ToInt(A_NORMAL), lib |-> <<Plain("A_NORMAL", A_NORMAL)>>]
\* mutant: the constant is returned through a 16-bit integer
bridge_a_dim_short == [ret |-> Signed(A_DIM, 16), lib |-> <<Plain("A_DIM", A_DIM)>>]
bridge_a_dim == [ret |-> ToInt(A_DIM), lib |-> <<Plain("A_DIM", A_DIM)>>]
bridge_a_reverse == [ret |-> ToInt(A_REVERSE), lib |-> <<Plain("A_REVERSE", A_REVERSE)>>]
bridge_a_standout == [ret |-> ToInt(A_STANDOUT), lib |-> <<Plain("A_STANDOUT", A_STANDOUT)>>]
bridge_a_underline == [ret |-> ToInt(A_UNDERLINE), lib |-> <<Plain("A_UNDERLINE", A_UNDERLINE)>>]

AttrFn(name) ==
    CASE name = "bridge_a_bold" -> bridge_a_bold
      [] name = "bridge_a_normal" -> bridge_a_normal
      [] name = "bridge_a_dim" -> bridge_a_dim
      [] name = "bridge_a_reverse" -> bridge_a_reverse
      [] name = "bridge_a_standout" -> bridge_a_standout
      [] name = "bridge_a_underline" -> bridge_a_underline

AttrNames == {"bridge_a_bold", "bridge_a_normal", "bridge_a_dim",
              "bridge_a_reverse", "bridge_a_standout", "bridge_a_underline"}

(***************************************************************************)
(* The state: stdscr, the window pointer the caller passes as win (NULL    *)
(* until the screen is initialised); ended, whether endwin was called;     *)
(* last, the last call: its name, the window's lifecycle when it was made, *)
(* its arguments, its result and the library calls it made.  For           *)
(* bridge_getmaxyx, last.y and last.x are the caller's ints after the call.*)
(***************************************************************************)
\* the positions a caller passes: every cell of the window, and one position
\* outside it on each side
Coords(p) ==
    LET rows == IF p = NULL THEN 0 ELSE p[1].maxy + 1
        cols == IF p = NULL THEN 0 ELSE p[1].maxx + 1
    IN  ((0..(rows - 1)) \X (0..(cols - 1)))
          \cup {<<-1, 0>>, <<0, -1>>, <<rows, 0>>, <<0, cols>>}

\* what the caller's ints may hold before bridge_getmaxyx is called
Prior == {0, 2}

Life == IF stdscr = NULL THEN "null" ELSE IF ended THEN "ended" ELSE "live"

Event(op, y, x, str, ch, ret, text, lib) ==
    [op |-> op, life |-> Life, y |-> y, x |-> x, str |-> str, ch |-> ch,
     ret |-> ret, text |-> text, lib |-> lib]

Init ==
    /\ stdscr = NULL
    /\ ended = FALSE
    /\ last = [op |-> "none", life |-> "null", y |-> 0, x |-> 0, str |-> <<>>,
               ch |-> BLANK, ret |-> 0, text |-> <<>>, lib |-> <<>>]

\* the caller initialises the screen: stdscr becomes a blank window of the
\* terminal's size
Initscr ==
    /\ stdscr = NULL
    /\ \E rows \in 1..MaxCells, cols \in 1..MaxCells :
          /\ rows * cols <= MaxCells
          /\ stdscr' = <<NewWin(rows, cols)>>
    /\ last' = Event("initscr", 0, 0, <<>>, BLANK, 0, <<>>, <<>>)
    /\ UNCHANGED ended

\* the caller tears the screen down: endwin leaves the window allocated
Endwin ==
    /\ stdscr # NULL
    /\ ~ended
    /\ ended' = TRUE
    /\ last' = Event("endwin", 0, 0, <<>>, BLANK, 0, <<>>, <<>>)
    /\ UNCHANGED stdscr

Call_getmaxyx ==
    \E y0 \in Prior, x0 \in Prior :
      LET r == bridge_getmaxyx(stdscr, y0, x0)
      IN  /\ stdscr' = r.win
          /\ last' = Event("bridge_getmaxyx", r.y, r.x, <<>>, BLANK, 0, <<>>, r.lib)
          /\ UNCHANGED ended

Call_mvwprintw ==
    \E c \in Coords(stdscr), str \in Strings :
      \E r \in bridge_mvwprintw(stdscr, c[1], c[2], str) :
        /\ stdscr' = r.win
        /\ last' = Event("bridge_mvwprintw", c[1], c[2], str, BLANK, r.ret, r.text, r.lib)
        /\ UNCHANGED ended

Call_mvwaddch ==
    \E c \in Coords(stdscr), ch \in Chars :
      LET r == bridge_mvwaddch(stdscr, c[1], c[2], ch)
      IN  /\ stdscr' = r.win
          /\ last' = Event("bridge_mvwaddch", c[1], c[2], <<>>, ch, r.ret, <<>>, r.lib)
          /\ UNCHANGED ended

Call_attr ==
    \E name \in AttrNames :
      /\ last' = Event(name, 0, 0, <<>>, BLANK, AttrFn(name).ret, <<>>, AttrFn(name).lib)
      /\ UNCHANGED <<stdscr, ended>>

Next ==
    \/ Initscr
    \/ Endwin
    \/ Call_getmaxyx
    \/ Call_mvwprintw
    \/ Call_mvwaddch
    \/ Call_attr

Spec == Init /\ [][Next]_vars

(***************************************************************************)
(* Properties                                                              *)
(***************************************************************************)
WindowOps == {"bridge_getmaxyx", "bridge_mvwprintw", "bridge_mvwaddch"}
WriteOps == {"bridge_mvwprintw", "bridge_mvwaddch"}

\* the library macro each attribute function names, and its value
AttrMacro(name) ==
    CASE name = "bridge_a_bold" -> <<"A_BOLD", A_BOLD>>
      [] name = "bridge_a_normal" -> <<"A_NORMAL", A_NORMAL>>
      [] name = "bridge_a_dim" -> <<"A_DIM", A_DIM>>
      [] name = "bridge_a_reverse" -> <<"A_REVERSE", A_REVERSE>>
      [] name = "bridge_a_standout" -> <<"A_STANDOUT", A_STANDOUT>>
      [] name = "bridge_a_underline" -> <<"A_UNDERLINE", A_UNDERLINE>>

InWindow(p, y, x) ==
    p # NULL /\ y >= 0 /\ y <= p[1].maxy /\ x >= 0 /\ x <= p[1].maxx

\* the cells from (y, x) to the lower right corner, in row-major order
Remaining(p, y, x) == (p[1].maxy + 1 - y) * (p[1].maxx + 1) - x

Min(a, b) == IF a <= b THEN a ELSE b

\* the contents of the n cells that follow (y, x) in row-major order
ReadCells(p, y, x, n) ==
    [i \in 1..n |->
        p[1].cells[<<y + ((x + i - 1) \div (p[1].maxx + 1)),
                     (x + i - 1) % (p[1].maxx + 1)>>]]

\* C1 (as claimed): every bridge function invokes a single library primitive
\* once and hands back that primitive's result unchanged.
C1_SinglePrimitiveOnce ==
    /\ last.op \in WindowOps => Len(last.lib) = 1
    /\ last.op \in WriteOps => last.ret = last.lib[1].ret
    /\ last.op \in AttrNames =>
          /\ Len(last.lib) = 1
          /\ last.ret >= 0
          /\ Bits(last.ret) = last.lib[1].ret

\* C1 (amended): bridge_mvwprintw, bridge_mvwaddch and the six bridge_a_*
\* functions use one library primitive once, with the arguments they were
\* given, and hand back its result unchanged; bridge_getmaxyx invokes two,
\* getmaxy then getmaxx, once each, and stores their results in *y and *x.
C1_Forwarding ==
    /\ last.op = "bridge_mvwprintw" =>
          /\ Len(last.lib) = 1
          /\ last.lib[1].fn = "mvwprintw"
          /\ last.lib[1].y = last.y /\ last.lib[1].x = last.x
          /\ last.ret = last.lib[1].ret
    /\ last.op = "bridge_mvwaddch" =>
          /\ Len(last.lib) = 1
          /\ last.lib[1].fn = "mvwaddch"
          /\ last.lib[1].y = last.y /\ last.lib[1].x = last.x
          /\ last.lib[1].ch = last.ch
          /\ last.ret = last.lib[1].ret
    /\ last.op \in AttrNames =>
          /\ Len(last.lib) = 1
          /\ last.lib[1].fn = AttrMacro(last.op)[1]
          /\ last.ret >= 0
          /\ Bits(last.ret) = last.lib[1].ret
    /\ last.op = "bridge_getmaxyx" =>
          /\ Len(last.lib) = 2
          /\ last.lib[1].fn = "getmaxy" /\ last.lib[2].fn = "getmaxx"
          /\ last.y = last.lib[1].ret
          /\ last.x = last.lib[2].ret

\* a bridge_getmaxyx call on a live window whose rows and columns differ
C1_Witness ==
    /\ last.op = "bridge_getmaxyx"
    /\ last.life = "live"
    /\ Len(last.lib) = 2
    /\ last.lib[1].ret # last.lib[2].ret

\* C2: bridge_mvwprintw hands the library the fixed format "%s" with str as
\* its only argument; the text the library formats and adds to the window is
\* str itself, and the cells from (y, x) on hold str character for character
\* (all of it when the call returns OK, and otherwise the part that fits
\* before the lower right corner): no '%' of str acts as a directive.
C2_PreformattedText ==
    last.op = "bridge_mvwprintw" =>
      /\ Len(last.lib) = 1
      /\ last.lib[1].fmt = <<"%", "s">>
      /\ last.lib[1].args = <<last.str>>
      /\ IF InWindow(stdscr, last.y, last.x)
         THEN LET n == Min(Len(last.str), Remaining(stdscr, last.y, last.x))
              IN  /\ last.text = <<last.str>>
                  /\ ReadCells(stdscr, last.y, last.x, n) = SubSeq(last.str, 1, n)
                  /\ (last.ret = OK) <=> (Len(last.str) < Remaining(stdscr, last.y, last.x))
                  /\ last.ret \in {OK, ERR}
         ELSE last.text = <<>> /\ last.ret = ERR

\* a string that starts with a '%' directive was written in full
C2_Witness ==
    /\ last.op = "bridge_mvwprintw"
    /\ Len(last.str) = 2
    /\ last.str[1] = "%"
    /\ InWindow(stdscr, last.y, last.x)
    /\ last.text = <<last.str>>
    /\ Remaining(stdscr, last.y, last.x) >= 2
    /\ ReadCells(stdscr, last.y, last.x, 2) = last.str

\* C3: on a valid window bridge_getmaxyx writes both outputs, the row count
\* (the height) to *y and the column count (the width) to *x, and leaves the
\* window's cells, cursor and size as they were.
C3_GetmaxyxOutputs ==
    [][(last'.op = "bridge_getmaxyx" /\ stdscr # NULL) =>
          /\ last'.y = stdscr[1].maxy + 1
          /\ last'.x = stdscr[1].maxx + 1
          /\ stdscr' = stdscr
          /\ ended' = ended]_vars

\* bridge_getmaxyx was called on a window with more columns than rows
C3_Witness ==
    /\ last.op = "bridge_getmaxyx"
    /\ stdscr # NULL
    /\ last.y = stdscr[1].maxy + 1
    /\ last.x = stdscr[1].maxx + 1
    /\ last.x > last.y

\* C7 (as claimed): a call that reaches the bridge with a window that is not
\* initialized or already torn down is not forwarded to the library.
C7_NoForwardUnlessLive ==
    (last.op \in WindowOps /\ last.life # "live") => last.lib = <<>>

\* C7 (amended): the bridge forwards every call whatever the window's
\* lifecycle.  With a NULL window the library call fails: both outputs of
\* bridge_getmaxyx are ERR and the writes return ERR.  After endwin the
\* window is still there: its size is reported and a character written
\* inside it is stored.
C7_ForwardedWhateverLifecycle ==
    last.op \in WindowOps =>
      /\ last.lib # <<>>
      /\ last.life = "null" =>
            /\ stdscr = NULL
            /\ last.op = "bridge_getmaxyx" => (last.y = ERR /\ last.x = ERR)
            /\ last.op \in WriteOps => last.ret = ERR
      /\ last.life = "ended" =>
            /\ stdscr # NULL
            /\ last.op = "bridge_getmaxyx" =>
                  (last.y = stdscr[1].maxy + 1 /\ last.x = stdscr[1].maxx + 1)
            /\ (last.op = "bridge_mvwaddch" /\ InWindow(stdscr, last.y, last.x)) =>
                  stdscr[1].cells[<<last.y, last.x>>] = last.ch

\* bridge_mvwaddch was called before the screen was initialised: the call
\* went to the library, which returned ERR
C7_Witness ==
    /\ last.op = "bridge_mvwaddch"
    /\ last.life = "null"
    /\ Len(last.lib) = 1
    /\ last.lib[1].fn = "mvwaddch"
    /\ last.ret = ERR

\* C9: bridge_mvwprintw and bridge_mvwaddch make one library call with the
\* position they were given and return its status; the window is left as
\* that one call leaves it, and a position outside the window gives ERR and
\* an untouched window.
C9_StatusUnchanged ==
    [][/\ last'.op = "bridge_mvwaddch" =>
            /\ Len(last'.lib) = 1
            /\ last'.lib[1].y = last'.y /\ last'.lib[1].x = last'.x
            /\ last'.ret = mvwaddch(stdscr, last'.y, last'.x, last'.ch).ret
            /\ stdscr' = mvwaddch(stdscr, last'.y, last'.x, last'.ch).win
            /\ ~InWindow(stdscr, last'.y, last'.x) =>
                  (last'.ret = ERR /\ stdscr' = stdscr)
       /\ last'.op = "bridge_mvwprintw" =>
            /\ Len(last'.lib) = 1
            /\ last'.lib[1].y = last'.y /\ last'.lib[1].x = last'.x
            /\ \E o \in mvwprintw(stdscr, last'.y, last'.x, <<"%", "s">>, <<last'.str>>) :
                  last'.ret = o.ret /\ stdscr' = o.win
            /\ ~InWindow(stdscr, last'.y, last'.x) =>
                  (last'.ret = ERR /\ stdscr' = stdscr)]_vars

\* a write at a position outside a live window returned ERR
C9_Witness ==
    /\ last.op \in WriteOps
    /\ last.life = "live"
    /\ ~InWindow(stdscr, last.y, last.x)
    /\ last.ret = ERR

FlagFns == AttrNames \ {"bridge_a_normal"}

\* the bitwise OR of the values the functions of S return
OrAll(S) == UNION {Bits(AttrFn(n).ret) : n \in S}

\* C10: each attribute function returns, at every call, the value of its
\* ncurses constant, converted to int without truncation or sign change;
\* bridge_a_normal returns 0, the other five return pairwise distinct
\* one-bit values, so an OR of them identifies the flags it was built from.
C10_AttrConstants ==
    /\ last.op \in AttrNames =>
          /\ last.ret = Value(AttrMacro(last.op)[2])
          /\ last.ret >= 0
    /\ bridge_a_normal.ret = 0
    /\ \A n \in FlagFns : Cardinality(Bits(AttrFn(n).ret)) = 1
    /\ \A n, m \in FlagFns : AttrFn(n).ret = AttrFn(m).ret => n = m
    /\ \A S \in SUBSET FlagFns :
          {n \in FlagFns : Bits(AttrFn(n).ret) \subseteq OrAll(S)} = S

\* bridge_a_dim returned A_DIM after characters were written to the window
C10_Witness ==
    /\ last.op = "bridge_a_dim"
    /\ last.ret = 2^20
    /\ stdscr # NULL
    /\ \E c \in DOMAIN stdscr[1].cells : stdscr[1].cells[c] # BLANK

=============================================================================
